---- MODULE Spec2Model ----
(***************************************************************************)
(* Model of the remote-staffing backend lambdas:                           *)
(*   - jd_ingestion_lambda/lambda_function.py : deduplicating ingestion    *)
(*     of job postings into the DynamoDB table JobDescriptions;            *)
(*   - "ml scoring"/lambda_function.py : cosine matching of a candidate    *)
(*     against the job-embedding corpus and MERGE of the scores into the   *)
(*     Snowflake table MATCH_SCORES.                                       *)
(*                                                                         *)
(* Strings that the code transforms are sequences of one-character         *)
(* strings.  Floats are fixed-point integers: a raw cosine x is the        *)
(* integer x * SCALE, a rounded percentage p is the integer p * 100.       *)
(***************************************************************************)
EXTENDS Integers, Sequences, FiniteSets, TLC

VARIABLES
    table,          \* DynamoDB table JobDescriptions: a set of items
    run,            \* run[r]: locals of ingestion invocation r
    match_scores,   \* Snowflake table MATCH_SCORES: a sequence of rows
    mrun,           \* mrun[m]: locals of matching invocation m
    TOP_N,          \* environment setting TOP_N of the matching lambda
    scenario,       \* what the sources supply: the batches and the corpora
    invocations     \* invocations of each lambda still to be delivered

vars == <<table, run, match_scores, mrun, TOP_N, scenario, invocations>>

ingestVars == <<table, run>>
matchVars == <<match_scores, mrun, TOP_N>>

----------------------------------------------------------------------------
(* Bounds *)

NumRuns == 2         \* overlapping ingestion invocations
MaxShared == 2       \* postings one fetch returns, overlapping invocations
MaxBatch == 2        \* postings one fetch returns, one invocation
NumMatchRuns == 2    \* overlapping matching invocations
MaxCorpus == 3       \* rows of the embeddings corpus
MaxDim == 1          \* dimension of an embedding vector

Runs == 1..NumRuns
MRuns == 1..NumMatchRuns

----------------------------------------------------------------------------
(* Generic helpers *)

Min(a, b) == IF a <= b THEN a ELSE b

RECURSIVE SeqsUpTo(_, _)
SeqsUpTo(S, n) ==
    IF n = 0 THEN {<<>>}
    ELSE LET shorter == SeqsUpTo(S, n - 1)
         IN shorter \cup {Append(s, x) : s \in {t \in shorter : Len(t) = n - 1}, x \in S}

----------------------------------------------------------------------------
(* jd_ingestion_lambda: helpers *)

LowerChar(c) ==
    CASE c = "D" -> "d"
      [] c = "O" -> "o"
      [] c = "X" -> "x"
      [] c = "Y" -> "y"
      [] c = "G" -> "g"
      [] c = "B" -> "b"
      [] OTHER -> c

Lower(s) == [i \in DOMAIN s |-> LowerChar(s[i])]

\* sha_job_id: f"{source}|{title}|{company}|{city}|{country}".lower(), hashed.
\* SHA-256 is taken as injective: the digest is represented by its preimage.
sha_job_id(source, title, company, city, country) ==
    Lower(source \o <<"|">> \o title \o <<"|">> \o company \o <<"|">>
          \o city \o <<"|">> \o country)

\* The postings the Adzuna source can return.  The first two differ only in
\* letter case and description; the third is a different posting.
Adzuna == <<"a", "z">>

PostingList ==
    << [source |-> Adzuna, title |-> <<"D", "v">>, company |-> <<"X">>,
        city |-> <<"Y">>, country |-> <<"G", "B">>, description |-> "d1"],
       [source |-> Adzuna, title |-> <<"d", "v">>, company |-> <<"x">>,
        city |-> <<"Y">>, country |-> <<"G", "B">>, description |-> "d2"],
       [source |-> Adzuna, title |-> <<"O", "p">>, company |-> <<"X">>,
        city |-> <<"Y">>, country |-> <<"G", "B">>, description |-> "d1"] >>

Postings == {PostingList[i] : i \in DOMAIN PostingList}

\* the two postings that are one logical posting
SharedPostings == {PostingList[1], PostingList[2]}

\* what fetch_adzuna can return, by scenario
BatchesOf(kind) ==
    IF kind = "overlap" THEN SeqsUpTo(SharedPostings, MaxShared)
    ELSE SeqsUpTo(Postings, MaxBatch)

\* a number that orders the batches
RECURSIVE BatchKey(_)
BatchKey(b) ==
    IF b = <<>> THEN 0
    ELSE (CHOOSE i \in DOMAIN PostingList : PostingList[i] = Head(b))
         + (Len(PostingList) + 1) * BatchKey(Tail(b))

\* lines 120-126, tabulated once over the postings
JobIds ==
    [job \in Postings |->
        sha_job_id(job.source, job.title, job.company, job.city, job.country)]

JobIdOf(job) == JobIds[job]

\* the item the handler builds for a posting (lines 136-162); the fields that
\* do not take part in identity are represented by the description
ItemOf(job) == [job_id |-> JobIdOf(job), description |-> job.description]

\* table.put_item(Item=item, ConditionExpression="attribute_not_exists(job_id)")
\* evaluated atomically by the store: the row is written only when no row has
\* the key, otherwise ConditionalCheckFailedException is raised.
put_item_unconditional(tbl, item) ==
    [raised |-> FALSE,
     tbl |-> {it \in tbl : it.job_id # item.job_id} \cup {item}]

put_item(tbl, item) ==
    IF \E it \in tbl : it.job_id = item.job_id
    THEN [raised |-> TRUE, tbl |-> tbl]
    ELSE [raised |-> FALSE, tbl |-> tbl \cup {item}]

\* `if job_id in seen` (line 128)
InSeenNever(job_id, seenIds) == FALSE

InSeen(job_id, seenIds) == job_id \in seenIds

\* `stored += 1` after put_item returned (line 169)
OnPutReturned(l) ==
    [l EXCEPT !.stored = @ + 1, !.pos = @ + 1,
              !.outcome = Append(@, "stored")]

\* `except Exception: skipped += 1` (lines 170-171); why is "conflict" for the
\* failed condition and "failure" for a store or transport failure
OnPutExceptionAbort(l, why) ==
    [l EXCEPT !.pos = Len(l.all_jobs) + 1, !.outcome = Append(@, why)]

OnPutException(l, why) ==
    [l EXCEPT !.skipped = @ + 1, !.pos = @ + 1,
              !.outcome = Append(@, why)]

NewRun ==
    [pc |-> "start", all_jobs |-> <<>>, pos |-> 1, seen |-> {},
     stored |-> 0, skipped |-> 0, put_calls |-> 0, outcome |-> <<>>,
     result |-> [statusCode |-> 0, jobs_stored |-> 0, jobs_skipped |-> 0]]

----------------------------------------------------------------------------
(* jd_ingestion_lambda: lambda_handler *)

\* Invocations are interchangeable, so only the behaviours are kept in which
\* the batches of the invocations that have fetched are in the order of the
\* invocation numbers.
InOrder(r, batch) ==
    \A k \in Runs :
        run[k].pc # "start" =>
            /\ k < r => BatchKey(run[k].all_jobs) <= BatchKey(batch)
            /\ k > r => BatchKey(batch) <= BatchKey(run[k].all_jobs)

\* lines 105-117: fetch_adzuna either returns its postings or raises, and the
\* exception is caught: the source then contributes nothing
Fetch(r) ==
    /\ run[r].pc = "start"
    /\ invocations.ingest > 0
    /\ invocations' = [invocations EXCEPT !.ingest = @ - 1]
    /\ \E batch \in BatchesOf(scenario) :
          /\ InOrder(r, batch)
          /\ run' = [run EXCEPT ![r].pc = "loop", ![r].all_jobs = batch]
    /\ UNCHANGED <<table, matchVars, scenario>>

FetchFails(r) ==
    /\ run[r].pc = "start"
    /\ invocations.ingest > 0
    /\ invocations' = [invocations EXCEPT !.ingest = @ - 1]
    /\ InOrder(r, <<>>)
    /\ run' = [run EXCEPT ![r].pc = "loop", ![r].all_jobs = <<>>]
    /\ UNCHANGED <<table, matchVars, scenario>>

\* lines 119-130: a posting whose id was seen earlier in this run
SkipDuplicate(r) ==
    LET l == run[r] IN
    /\ l.pc = "loop"
    /\ l.pos <= Len(l.all_jobs)
    /\ InSeen(JobIdOf(l.all_jobs[l.pos]), l.seen)
    /\ run' = [run EXCEPT ![r] = [l EXCEPT !.skipped = @ + 1, !.pos = @ + 1,
                                           !.outcome = Append(@, "duplicate")]]
    /\ UNCHANGED <<table, matchVars, scenario, invocations>>

\* lines 132-171: the conditional insert reaches the store and its answer
\* reaches the handler
PutItem(r) ==
    LET l == run[r]
        job == l.all_jobs[l.pos]
        l1 == [l EXCEPT !.seen = @ \cup {JobIdOf(job)}, !.put_calls = @ + 1]
        ans == put_item(table, ItemOf(job))
    IN
    /\ l.pc = "loop"
    /\ l.pos <= Len(l.all_jobs)
    /\ ~InSeen(JobIdOf(job), l.seen)
    /\ table' = ans.tbl
    /\ run' = [run EXCEPT ![r] = IF ans.raised
                                 THEN OnPutException(l1, "conflict")
                                 ELSE OnPutReturned(l1)]
    /\ UNCHANGED <<matchVars, scenario, invocations>>

\* the request fails before the store applies it (throttling, timeout, ...)
PutItemFails(r) ==
    LET l == run[r]
        job == l.all_jobs[l.pos]
        l1 == [l EXCEPT !.seen = @ \cup {JobIdOf(job)}, !.put_calls = @ + 1]
    IN
    /\ l.pc = "loop"
    /\ l.pos <= Len(l.all_jobs)
    /\ ~InSeen(JobIdOf(job), l.seen)
    /\ run' = [run EXCEPT ![r] = OnPutException(l1, "failure")]
    /\ UNCHANGED <<table, matchVars, scenario, invocations>>

\* the store applies the request but the answer is lost on the way back
PutItemAnswerLost(r) ==
    LET l == run[r]
        job == l.all_jobs[l.pos]
        l1 == [l EXCEPT !.seen = @ \cup {JobIdOf(job)}, !.put_calls = @ + 1]
        ans == put_item(table, ItemOf(job))
    IN
    /\ l.pc = "loop"
    /\ l.pos <= Len(l.all_jobs)
    /\ ~InSeen(JobIdOf(job), l.seen)
    /\ table' = ans.tbl
    /\ run' = [run EXCEPT ![r] = OnPutException(l1, "failure")]
    /\ UNCHANGED <<matchVars, scenario, invocations>>

\* the conditional insert of another invocation, one that is not among Runs
ForeignPut ==
    /\ \E job \in Postings :
          /\ ~put_item(table, ItemOf(job)).raised
          /\ table' = put_item(table, ItemOf(job)).tbl
    /\ UNCHANGED <<run, matchVars, scenario, invocations>>

\* lines 173-181
Return(r) ==
    LET l == run[r] IN
    /\ l.pc = "loop"
    /\ l.pos > Len(l.all_jobs)
    /\ run' = [run EXCEPT ![r].pc = "done",
                          ![r].result = [statusCode |-> 200,
                                         jobs_stored |-> l.stored,
                                         jobs_skipped |-> l.skipped]]
    /\ UNCHANGED <<table, matchVars, scenario, invocations>>

----------------------------------------------------------------------------
(* ml scoring: fixed-point arithmetic *)

SCALE == 1000        \* a float x is the integer x * SCALE

\* a / b rounded to the nearest integer, b # 0
RECURSIVE RoundDiv(_, _)
RoundDiv(a, b) ==
    IF b < 0 THEN RoundDiv(-a, -b) ELSE (2 * a + b) \div (2 * b)

\* largest k in lo..hi with k * k <= n
RECURSIVE SqrtSearch(_, _, _)
SqrtSearch(n, lo, hi) ==
    IF lo >= hi THEN lo
    ELSE LET mid == (lo + hi + 1) \div 2
         IN IF mid * mid <= n THEN SqrtSearch(n, mid, hi)
            ELSE SqrtSearch(n, lo, mid - 1)

\* math.sqrt of the integer n, as a fixed-point number
Sqrt(n) == SqrtSearch(n * SCALE * SCALE, 0, 46340)

RECURSIVE SumSeq(_)
SumSeq(s) == IF s = <<>> THEN 0 ELSE Head(s) + SumSeq(Tail(s))

----------------------------------------------------------------------------
(* ml scoring: cosine similarity *)

\* sum(x * y for x, y in zip(a, b)): zip stops at the shorter operand
dot(a, b) == SumSeq([i \in 1..Min(Len(a), Len(b)) |-> a[i] * b[i]])

norm(a) == Sqrt(SumSeq([i \in DOMAIN a |-> a[i] * a[i]]))

cosine(a, b) ==
    LET na == norm(a)
        nb == norm(b)
    IN IF na = 0 \/ nb = 0 THEN 0
       ELSE RoundDiv(dot(a, b) * SCALE * SCALE, RoundDiv(na * nb, SCALE))

----------------------------------------------------------------------------
(* ml scoring: the candidate table and the corpus *)

\* CANDIDATE_DATA_CLEANED: candidate id -> the rows the SELECT returns.  No
\* row is <<>>; a row is a one-tuple holding the RESUME_TEXT cell.
Text(chars) == [isnull |-> FALSE, text |-> chars]
Null == [isnull |-> TRUE, text |-> <<>>]

CandidateIds == {"c1", "c2", "c3", "c4"}

fetchone(cid) ==
    CASE cid = "c1" -> <<Text(<<"j", "v", "m">>)>>
      [] cid = "c2" -> <<Text(<<>>)>>
      [] cid = "c3" -> <<Null>>
      [] OTHER -> <<>>

\* event["detail"]["candidate_id"]; "" stands for an absent or empty id
EventIds == CandidateIds \cup {""}

\* `not row or not row[0]` (line 132)
ResumeMissingRowOnly(row) == row = <<>>

ResumeMissing(row) ==
    row = <<>> \/ row[1].isnull \/ Len(row[1].text) = 0

Components == {-1, 0, 1}

Vectors == SeqsUpTo(Components, MaxDim) \ {<<>>}

RowNames == <<"A", "B", "C", "D", "E">>

\* every corpus of at most MaxCorpus rows over Vectors, rows named in order
RankCorpora ==
    {[i \in DOMAIN vs |-> <<RowNames[i], vs[i]>>] : vs \in SeqsUpTo(Vectors, MaxCorpus)}

\* a few corpora that share row names, repeat a row name, mix dimensions
\* and hold vectors that point away from the query
SmallCorpora ==
    { <<>>,
      << <<"A", <<1, 1>> >>, <<"B", <<1, 0>> >> >>,
      << <<"A", <<1, 0>> >>, <<"B", <<1, 1>> >> >>,
      << <<"A", <<1, 1>> >>, <<"A", <<0, 1>> >> >>,
      << <<"B", <<1, 1>> >>, <<"A", <<1>> >> >>,
      << <<"A", <<-1, -1>> >>, <<"B", <<-1, 0>> >> >> }

\* what the embeddings object can hold, by scenario
CorporaOf(kind) == IF kind = "rank" THEN RankCorpora ELSE SmallCorpora

TopNDefault == 200

----------------------------------------------------------------------------
(* ml scoring: normalisation and ranking *)

MaxOf(S) == CHOOSE x \in S : \A y \in S : x >= y

\* max(s for _, s in raw_scores) or 1.0 (line 156)
max_score(raw) ==
    LET mx == MaxOf({raw[i][2] : i \in DOMAIN raw})
    IN IF mx = 0 THEN SCALE ELSE mx

\* round((score / max_score) * 100, 2), in hundredths of a percent
Normalize(raw) ==
    LET mx == max_score(raw)
    IN [i \in DOMAIN raw |-> <<raw[i][1], RoundDiv(raw[i][2] * 100 * 100, mx)>>]

\* list.sort(key=lambda x: x[1], reverse=True): a stable sort, so an element
\* goes after the elements already placed whose key is greater or equal
InsertBeforeEqual(sorted, x) ==
    LET k == Cardinality({i \in DOMAIN sorted : sorted[i][2] > x[2]})
    IN SubSeq(sorted, 1, k) \o <<x>> \o SubSeq(sorted, k + 1, Len(sorted))

InsertDesc(sorted, x) ==
    LET k == Cardinality({i \in DOMAIN sorted : sorted[i][2] >= x[2]})
    IN SubSeq(sorted, 1, k) \o <<x>> \o SubSeq(sorted, k + 1, Len(sorted))

RECURSIVE SortFrom(_, _, _)
SortFrom(s, i, acc) ==
    IF i > Len(s) THEN acc ELSE SortFrom(s, i + 1, InsertDesc(acc, s[i]))

SortDesc(s) == SortFrom(s, 1, <<>>)

\* normalized[:TOP_N]
Truncate(s, n) == SubSeq(s, 1, Min(n, Len(s)))

\* lines 143-150
RawScores(resume_text, job_embs) ==
    LET embedding_dim == Len(job_embs[1][2])
        resume_emb == [i \in 1..embedding_dim |-> Len(resume_text)]
    IN [i \in DOMAIN job_embs |-> <<job_embs[i][1], cosine(resume_emb, job_embs[i][2])>>]

----------------------------------------------------------------------------
(* ml scoring: persist_scores *)

\* MERGE INTO MATCH_SCORES ... ON JOB_ID, CANDIDATE_ID: update the matching
\* rows, insert one row when none matches
MergeRowInsertOnly(tbl, job_id, cid, score) ==
    Append(tbl, [JOB_ID |-> job_id, CANDIDATE_ID |-> cid, SCORE |-> score])

MergeRow(tbl, job_id, cid, score) ==
    IF \E i \in DOMAIN tbl : tbl[i].JOB_ID = job_id /\ tbl[i].CANDIDATE_ID = cid
    THEN [i \in DOMAIN tbl |->
            IF tbl[i].JOB_ID = job_id /\ tbl[i].CANDIDATE_ID = cid
            THEN [tbl[i] EXCEPT !.SCORE = score]
            ELSE tbl[i]]
    ELSE Append(tbl, [JOB_ID |-> job_id, CANDIDATE_ID |-> cid, SCORE |-> score])

\* a whole call of persist_scores that no statement fails
RECURSIVE PersistFrom(_, _, _, _)
PersistFrom(tbl, cid, matches, i) ==
    IF i > Len(matches) THEN tbl
    ELSE PersistFrom(MergeRow(tbl, matches[i][1], cid, matches[i][2]),
                     cid, matches, i + 1)

persist_scores(tbl, cid, matches) == PersistFrom(tbl, cid, matches, 1)

----------------------------------------------------------------------------
(* ml scoring: lambda_handler *)

NoResult == [status |-> "none", message |-> "", matches_written |-> 0,
             top_matches |-> <<>>]

ErrorResult(msg) == [status |-> "error", message |-> msg,
                     matches_written |-> 0, top_matches |-> <<>>]

\* an exception leaves the handler: its frame is gone, what it did stays done
Raise(l) ==
    [pc |-> "raised", candidate_id |-> l.candidate_id, row |-> <<>>,
     job_embs |-> <<>>, raw_scores |-> <<>>, normalized |-> <<>>,
     top_matches |-> <<>>, widx |-> 1, result |-> NoResult,
     load_attempted |-> l.load_attempted, written |-> l.written]

NewMatchRun ==
    [pc |-> "idle", candidate_id |-> "", row |-> <<>>, job_embs |-> <<>>,
     raw_scores |-> <<>>, normalized |-> <<>>, top_matches |-> <<>>,
     widx |-> 1, result |-> NoResult, load_attempted |-> FALSE,
     written |-> 0]

\* lines 112-119; invocations are interchangeable, so they start in order
Invoke(m) ==
    /\ mrun[m].pc = "idle"
    /\ \A k \in MRuns : k < m => mrun[k].pc # "idle"
    /\ invocations.match > 0
    /\ invocations' = [invocations EXCEPT !.match = @ - 1]
    /\ \E cid \in EventIds :
          mrun' = [mrun EXCEPT ![m] =
                     IF cid = ""
                     THEN [@ EXCEPT !.pc = "returned",
                                    !.result = ErrorResult("candidate_id missing")]
                     ELSE [@ EXCEPT !.pc = "fetch_resume", !.candidate_id = cid]]
    /\ UNCHANGED <<match_scores, TOP_N, scenario, ingestVars>>

\* lines 121-135
FetchResume(m) ==
    LET l == mrun[m]
        row == fetchone(l.candidate_id)
    IN
    /\ l.pc = "fetch_resume"
    /\ mrun' = [mrun EXCEPT ![m] =
                  IF ResumeMissing(row)
                  THEN [l EXCEPT !.pc = "returned", !.row = row,
                                 !.result = ErrorResult("resume_text not found")]
                  ELSE [l EXCEPT !.pc = "load", !.row = row]]
    /\ UNCHANGED <<match_scores, TOP_N, scenario, invocations, ingestVars>>

\* get_snowflake_conn or the SELECT raises (lines 122-128): nothing catches it
FetchResumeRaises(m) ==
    /\ mrun[m].pc = "fetch_resume"
    /\ mrun' = [mrun EXCEPT ![m] = Raise(@)]
    /\ UNCHANGED <<match_scores, TOP_N, scenario, invocations, ingestVars>>

\* lines 137-163: load the corpus, score, normalise, rank, truncate
LoadAndRank(m) ==
    LET l == mrun[m] IN
    /\ l.pc = "load"
    /\ \E job_embs \in CorporaOf(scenario) :
          mrun' = [mrun EXCEPT ![m] =
             IF job_embs = <<>>
             THEN [l EXCEPT !.pc = "returned", !.load_attempted = TRUE,
                            !.result = ErrorResult("no job embeddings found")]
             ELSE LET raw == RawScores(l.row[1].text, job_embs)
                      normalized == Normalize(raw)
                  IN [l EXCEPT !.pc = "connect", !.load_attempted = TRUE,
                               !.job_embs = job_embs,
                               !.raw_scores = raw,
                               !.normalized = normalized,
                               !.top_matches = Truncate(SortDesc(normalized), TOP_N)]]
    /\ UNCHANGED <<match_scores, TOP_N, scenario, invocations, ingestVars>>

\* the S3 download or the CSV parse raises (lines 44-62)
LoadRaises(m) ==
    /\ mrun[m].pc = "load"
    /\ mrun' = [mrun EXCEPT ![m] = Raise([@ EXCEPT !.load_attempted = TRUE])]
    /\ UNCHANGED <<match_scores, TOP_N, scenario, invocations, ingestVars>>

\* persist_scores, lines 82-85
Connect(m) ==
    /\ mrun[m].pc = "connect"
    /\ mrun' = [mrun EXCEPT ![m].pc = "persist", ![m].widx = 1]
    /\ UNCHANGED <<match_scores, TOP_N, scenario, invocations, ingestVars>>

ConnectRaises(m) ==
    /\ mrun[m].pc = "connect"
    /\ mrun' = [mrun EXCEPT ![m] = Raise(@)]
    /\ UNCHANGED <<match_scores, TOP_N, scenario, invocations, ingestVars>>

\* persist_scores, lines 87-102: one MERGE statement, atomic in the store
Merge(m) ==
    LET l == mrun[m] IN
    /\ l.pc = "persist"
    /\ l.widx <= Len(l.top_matches)
    /\ match_scores' = MergeRow(match_scores, l.top_matches[l.widx][1],
                                l.candidate_id, l.top_matches[l.widx][2])
    /\ mrun' = [mrun EXCEPT ![m].widx = @ + 1, ![m].written = @ + 1]
    /\ UNCHANGED <<TOP_N, scenario, invocations, ingestVars>>

MergeRaises(m) ==
    LET l == mrun[m] IN
    /\ l.pc = "persist"
    /\ l.widx <= Len(l.top_matches)
    /\ mrun' = [mrun EXCEPT ![m] = Raise(@)]
    /\ UNCHANGED <<match_scores, TOP_N, scenario, invocations, ingestVars>>

\* persist_scores lines 104-108, lambda_handler lines 168-176
ReturnOk(m) ==
    LET l == mrun[m] IN
    /\ l.pc = "persist"
    /\ l.widx > Len(l.top_matches)
    /\ mrun' = [mrun EXCEPT ![m].pc = "returned",
                            ![m].result =
                               [status |-> "ok", message |-> "",
                                matches_written |-> Len(l.top_matches),
                                top_matches |-> Truncate(l.top_matches, 10)]]
    /\ UNCHANGED <<match_scores, TOP_N, scenario, invocations, ingestVars>>

---------------------------------------------------------------------------------------------------------------------------------------------------
(* Specifications *)

InitStores ==
    /\ table = {}
    /\ run = [r \in Runs |-> NewRun]
    /\ match_scores = <<>>
    /\ mrun = [m \in MRuns |-> NewMatchRun]

\* NumRuns overlapping ingestion invocations fetch the same logical posting
Init ==
    /\ InitStores
    /\ scenario = "overlap"
    /\ TOP_N = TopNDefault
    /\ invocations = [ingest |-> NumRuns, match |-> 0]

\* one ingestion invocation over every batch within MaxBatch, against a store
\* that other invocations write to
InitRun ==
    /\ InitStores
    /\ scenario = "single"
    /\ TOP_N = TopNDefault
    /\ invocations = [ingest |-> 1, match |-> 0]

\* NumMatchRuns overlapping matching invocations over a few corpora
InitMatch ==
    /\ InitStores
    /\ scenario = "match"
    /\ TOP_N = TopNDefault
    /\ invocations = [ingest |-> 0, match |-> NumMatchRuns]

\* one matching invocation over every corpus within MaxCorpus and MaxDim
InitRank ==
    /\ InitStores
    /\ scenario = "rank"
    /\ TOP_N \in {2, TopNDefault}
    /\ invocations = [ingest |-> 0, match |-> 1]

Ingest ==
    \E r \in Runs :
       \/ Fetch(r)
       \/ FetchFails(r)
       \/ SkipDuplicate(r)
       \/ PutItem(r)
       \/ PutItemFails(r)
       \/ PutItemAnswerLost(r)
       \/ Return(r)

Next == Ingest

NextRun == Ingest \/ ForeignPut

NextMatch ==
    \E m \in MRuns :
       \/ Invoke(m)
       \/ FetchResume(m)
       \/ FetchResumeRaises(m)
       \/ LoadAndRank(m)
       \/ LoadRaises(m)
       \/ Connect(m)
       \/ ConnectRaises(m)
       \/ Merge(m)
       \/ MergeRaises(m)
       \/ ReturnOk(m)

Spec == Init /\ [][Next]_vars

SpecRun == InitRun /\ [][NextRun]_vars

SpecMatch == InitMatch /\ [][NextMatch]_vars

SpecRank == InitRank /\ [][NextMatch]_vars

----------------------------------------------------------------------------
(* Ingestion: what a run has recorded *)

\* positions of run r that it has counted with the given outcome for id
Counted(r, id, what) ==
    {i \in DOMAIN run[r].outcome :
        run[r].outcome[i] = what /\ JobIdOf(run[r].all_jobs[i]) = id}

StoredBy(id) == {r \in Runs : Counted(r, id, "stored") # {}}

ProcessedBy(id) ==
    {r \in Runs : \E i \in DOMAIN run[r].outcome : JobIdOf(run[r].all_jobs[i]) = id}

InsertFailed(id) == \E r \in Runs : Counted(r, id, "failure") # {}

PostingIds == {JobIdOf(p) : p \in Postings}

NotStored(r) == {i \in DOMAIN run[r].outcome : run[r].outcome[i] # "stored"}

\* C1 (as stated): for each posting_id that some run has processed, exactly
\* one run counts it in jobs_stored.
C1_ExactlyOneRunStores ==
    \A id \in PostingIds :
        ProcessedBy(id) # {} => Cardinality(StoredBy(id)) = 1

\* C1 (amended): the store never holds two rows with the same posting_id; for
\* each posting_id at most one run counts it in jobs_stored, and counts it
\* once, while every other run that processes it counts it in jobs_skipped;
\* exactly one run counts it in jobs_stored when no conditional insert of
\* that posting_id failed in the store or in transport.
C1_AtMostOneRunStores ==
    /\ \A a \in table, b \in table : a.job_id = b.job_id => a = b
    /\ \A id \in PostingIds :
          /\ Cardinality(StoredBy(id)) <= 1
          /\ \A r \in Runs : Cardinality(Counted(r, id, "stored")) <= 1
          /\ (ProcessedBy(id) # {} /\ ~InsertFailed(id))
                => Cardinality(StoredBy(id)) = 1
          /\ StoredBy(id) # {} => \E it \in table : it.job_id = id
    /\ \A r \in Runs :
          /\ run[r].stored = Cardinality(DOMAIN run[r].outcome \ NotStored(r))
          /\ run[r].skipped = Cardinality(NotStored(r))

\* two finished runs processed the same posting: one stored it, the other
\* skipped it on the failed condition
C1_Witness ==
    \E id \in PostingIds, r1 \in Runs, r2 \in Runs :
        /\ run[r1].pc = "done" /\ run[r2].pc = "done"
        /\ Counted(r1, id, "stored") # {}
        /\ Counted(r2, id, "conflict") # {}
        /\ run[r1].result.jobs_stored + run[r2].result.jobs_stored = 1

SameIdentityPair(r) ==
    /\ Len(run[r].all_jobs) = 2
    /\ JobIdOf(run[r].all_jobs[1]) = JobIdOf(run[r].all_jobs[2])

\* C2 (as stated): a run whose batch is two postings with identical identity
\* fields returns jobs_stored = 1 and jobs_skipped = 1.
C2_PairStoresOne ==
    \A r \in Runs :
        (run[r].pc = "done" /\ SameIdentityPair(r))
            => run[r].result.jobs_stored = 1 /\ run[r].result.jobs_skipped = 1

\* C2 (amended): a posting whose posting_id occurred earlier in the same run
\* is counted as skipped and no put_item is issued for it; a run whose batch
\* is two postings with identical identity fields returns jobs_stored = 1 and
\* jobs_skipped = 1 when the insert of the first one succeeds, and
\* jobs_stored = 0 and jobs_skipped = 2 otherwise.
C2_InRunDuplicateSkipped ==
    \A r \in Runs :
        LET l == run[r]
            done == 1..(l.pos - 1)
            repeats == {i \in done : \E j \in 1..(i - 1) :
                           JobIdOf(l.all_jobs[j]) = JobIdOf(l.all_jobs[i])}
        IN /\ l.put_calls = Cardinality(done \ repeats)
           /\ l.put_calls = Cardinality(l.seen)
           /\ \A i \in repeats : l.outcome[i] = "duplicate"
           /\ l.skipped >= Cardinality(repeats)
           /\ (l.pc = "done" /\ SameIdentityPair(r)) =>
                 /\ l.put_calls = 1
                 /\ l.outcome[1] = "stored" =>
                       l.result.jobs_stored = 1 /\ l.result.jobs_skipped = 1
                 /\ l.outcome[1] # "stored" =>
                       l.result.jobs_stored = 0 /\ l.result.jobs_skipped = 2

\* a finished run over two postings that differ only in letter case and
\* description: one insert, one stored, one skipped
C2_Witness ==
    \E r \in Runs :
        /\ run[r].pc = "done"
        /\ SameIdentityPair(r)
        /\ run[r].all_jobs[1] # run[r].all_jobs[2]
        /\ run[r].put_calls = 1
        /\ run[r].result.jobs_stored = 1
        /\ run[r].result.jobs_skipped = 1

\* C3: a failure of one conditional insert does not abort the batch: the
\* failing posting is counted as skipped, every later posting is processed,
\* and the returned jobs_stored + jobs_skipped is the number of postings
\* fetched.
C3_FailureDoesNotAbort ==
    \A r \in Runs :
        LET l == run[r] IN
        /\ l.pos = Len(l.outcome) + 1
        /\ l.stored + l.skipped = Len(l.outcome)
        /\ l.skipped >= Cardinality({i \in DOMAIN l.outcome :
                                        l.outcome[i] \in {"failure", "conflict"}})
        /\ l.pc = "done" =>
              /\ Len(l.outcome) = Len(l.all_jobs)
              /\ l.result.statusCode = 200
              /\ l.result.jobs_stored + l.result.jobs_skipped = Len(l.all_jobs)

\* a finished run whose first insert failed and whose second posting was
\* stored all the same
C3_Witness ==
    \E r \in Runs :
        /\ run[r].pc = "done"
        /\ Len(run[r].all_jobs) = 2
        /\ run[r].outcome[1] = "failure"
        /\ run[r].outcome[2] = "stored"
        /\ run[r].result.jobs_stored = 1
        /\ run[r].result.jobs_skipped = 1

----------------------------------------------------------------------------
(* Matching *)

\* C4: every invocation of the ingestion handler and of the matching handler
\* ends by returning a structured result; no exception escapes to the caller.
C4_NoExceptionEscapes ==
    /\ \A r \in Runs : run[r].pc = "done" => run[r].result.statusCode = 200
    /\ \A m \in MRuns :
          /\ mrun[m].pc # "raised"
          /\ mrun[m].pc = "returned" => mrun[m].result.status \in {"ok", "error"}

Ranked(m) == mrun[m].top_matches # <<>>

MaxRaw(m) == MaxOf({mrun[m].raw_scores[i][2] : i \in DOMAIN mrun[m].raw_scores})

\* C5: over a non-empty corpus whose maximum raw score is nonzero, the
\* top-ranked match has match_percent exactly 100.0.
C5_TopMatchIsHundred ==
    \A m \in MRuns :
        (Ranked(m) /\ MaxRaw(m) # 0) => mrun[m].top_matches[1][2] = 100 * 100

\* C6: every Match Score written has a score in the range 0 to 100.
C6_ScoreInRange ==
    \A i \in DOMAIN match_scores :
        0 <= match_scores[i].SCORE /\ match_scores[i].SCORE <= 100 * 100

\* C7: the ranked list is in descending order of normalized score, two
\* references with equal normalized score are in corpus order, and the list
\* kept after truncation to TOP_N is a prefix of that order.
C7_RankedStableDescending ==
    \A m \in MRuns :
        LET norm_ == mrun[m].normalized
            top == mrun[m].top_matches
        IN norm_ # <<>> =>
            /\ Len(top) = Min(TOP_N, Len(norm_))
            /\ \E p \in [DOMAIN top -> DOMAIN norm_] :
                  /\ \A i \in DOMAIN top : top[i] = norm_[p[i]]
                  /\ \A i \in DOMAIN top, j \in DOMAIN top :
                        i < j => \/ top[i][2] > top[j][2]
                                 \/ top[i][2] = top[j][2] /\ p[i] < p[j]
                  /\ \A k \in DOMAIN norm_ :
                        (\A i \in DOMAIN top : p[i] # k) =>
                            \A i \in DOMAIN top :
                                \/ top[i][2] > norm_[k][2]
                                \/ top[i][2] = norm_[k][2] /\ p[i] < k

\* the corpus [(A, x), (B, x), (C, y)] with x < y is ranked C, A, B
C7_Witness ==
    \E m \in MRuns :
        LET l == mrun[m] IN
        /\ Len(l.normalized) = 3
        /\ l.normalized[1][2] = l.normalized[2][2]
        /\ l.normalized[2][2] < l.normalized[3][2]
        /\ Len(l.top_matches) = 3
        /\ l.top_matches[1][1] = "C"
        /\ l.top_matches[2][1] = "A"
        /\ l.top_matches[3][1] = "B"

UniqueKeys(tbl) ==
    \A i \in DOMAIN tbl, j \in DOMAIN tbl :
        (tbl[i].JOB_ID = tbl[j].JOB_ID /\ tbl[i].CANDIDATE_ID = tbl[j].CANDIDATE_ID)
            => i = j

\* C8: the match-score store holds at most one row per (job_id,
\* candidate_id), and calling persist_scores a second time with the same
\* input leaves the store as the first call left it: rows are overwritten in
\* place, none is added.
C8_PersistIdempotent ==
    /\ UniqueKeys(match_scores)
    /\ \A m \in MRuns :
          Ranked(m) =>
             LET l == mrun[m]
                 once == persist_scores(match_scores, l.candidate_id, l.top_matches)
                 twice == persist_scores(once, l.candidate_id, l.top_matches)
             IN /\ twice = once
                /\ UniqueKeys(once)
                /\ \A i \in DOMAIN match_scores :
                      /\ once[i].JOB_ID = match_scores[i].JOB_ID
                      /\ once[i].CANDIDATE_ID = match_scores[i].CANDIDATE_ID

\* two invocations for the same candidate ranked different corpora over the
\* same jobs and both returned: the second overwrote the rows of the first
C8_Witness ==
    \E m1 \in MRuns, m2 \in MRuns :
        /\ m1 # m2
        /\ mrun[m1].result.status = "ok" /\ mrun[m2].result.status = "ok"
        /\ mrun[m1].candidate_id = mrun[m2].candidate_id
        /\ mrun[m1].top_matches # mrun[m2].top_matches
        /\ {mrun[m1].top_matches[i][1] : i \in DOMAIN mrun[m1].top_matches}
              = {mrun[m2].top_matches[i][1] : i \in DOMAIN mrun[m2].top_matches}
        /\ mrun[m1].written = 2 /\ mrun[m2].written = 2
        /\ Len(match_scores) = 2

\* the candidate table has no row for the id, or a row without resume text
NoResume(cid) ==
    LET rows == fetchone(cid)
    IN rows = <<>> \/ rows[1].isnull \/ rows[1].text = <<>>

MixedDimensions(m) ==
    \E i \in DOMAIN mrun[m].job_embs :
        Len(mrun[m].job_embs[i][2]) # Len(mrun[m].job_embs[1][2])

\* C10: a matching run fails with a DimensionMismatch error and persists no
\* scores whenever the dimension of the query vector, taken from the first
\* corpus row, differs from the dimension of some corpus vector.
C10_DimensionMismatchFails ==
    \A m \in MRuns :
        MixedDimensions(m) =>
            /\ mrun[m].written = 0
            /\ mrun[m].pc \notin {"connect", "persist"}
            /\ mrun[m].pc = "returned" =>
                  mrun[m].result = ErrorResult("DimensionMismatch")

====
